---- MODULE Spec2Model ----
(***************************************************************************)
(* Model of bearing_capacity_app.py: a Streamlit script that is re-executed*)
(* top to bottom on every widget change.  The state is the widget values   *)
(* (the inputs), the module-level names the script computes from them, and *)
(* what the script puts on the page.                                       *)
(*                                                                         *)
(* Numbers.  The script computes in IEEE-754 doubles.  The model computes  *)
(* in fixed point with four decimals: the integer n stands for n / Unit.   *)
(* Three values outside the finite range stand for what a double can be    *)
(* besides an ordinary number:                                             *)
(*   PosInf, NegInf : +inf / -inf, and also any finite double whose        *)
(*                    magnitude is at least Lim / Unit = 50000 (the only   *)
(*                    such values the inputs below produce come from       *)
(*                    tan(pi/2) = 1.6e16 and 1/cos(pi/2) when gamma_m = 0) *)
(*   NaN            : not-a-number, and also the product of an exact zero  *)
(*                    of the model with such an out-of-range value (the    *)
(*                    double is 0 * 1.6e16 or inf * 6e-17 there)           *)
(* numpy scalars do not raise on division by zero or overflow (they warn), *)
(* so the arithmetic below follows the IEEE rules for these values.        *)
(***************************************************************************)
EXTENDS Integers, Sequences, FiniteSets

Unit == 100 * 100
PosInf == 2 * 1000 * 1000 * 1000
NegInf == -PosInf
NaN == PosInf + 1
Lim == 50000 * Unit

\* Call by value.  An operator argument and a LET name are re-evaluated at
\* every use; only a bound variable holds a value.  Each operation below
\* therefore binds its operands once and works on the values.
Only(S) == CHOOSE v \in S : TRUE

IsFin(x) == x > NegInf /\ x < PosInf
Abs(x) == IF x < 0 THEN -x ELSE x
Sgn(x) == IF x < 0 THEN -1 ELSE IF x > 0 THEN 1 ELSE 0

\* a finite result that left the finite range becomes +-inf
Norm(x) == IF x >= Lim THEN PosInf ELSE IF x <= -Lim THEN NegInf ELSE x

NegV(x) == IF x = NaN THEN NaN ELSE -x
Neg(a) == Only({NegV(x) : x \in {a}})

AddV(a, b) ==
  IF a = NaN \/ b = NaN THEN NaN
  ELSE IF ~IsFin(a) THEN (IF ~IsFin(b) /\ b # a THEN NaN ELSE a)
  ELSE IF ~IsFin(b) THEN b
  ELSE Norm(a + b)
Add(a, b) == Only({AddV(x, y) : x \in {a}, y \in {b}})

SubV(a, b) == AddV(a, NegV(b))
Sub(a, b) == Only({SubV(x, y) : x \in {a}, y \in {b}})

\* x * y / Unit for finite x, y >= 0, rounded, without leaving 32 bits
MulMag(x, y) ==
  IF y \div Unit > 0 /\ x \div Unit > (Lim \div Unit) \div (y \div Unit)
  THEN PosInf
  ELSE Norm((x \div Unit) * (y \div Unit) * Unit + (x \div Unit) * (y % Unit)
            + (x % Unit) * (y \div Unit)
            + ((x % Unit) * (y % Unit) + Unit \div 2) \div Unit)

MulV(a, b) ==
  IF a = NaN \/ b = NaN THEN NaN
  ELSE IF ~IsFin(a) \/ ~IsFin(b)
       THEN (IF a = 0 \/ b = 0 THEN NaN
             ELSE IF Sgn(a) * Sgn(b) > 0 THEN PosInf ELSE NegInf)
  ELSE IF Abs(a) < 4 * Unit /\ Abs(b) < 4 * Unit
       THEN (IF (a < 0) = (b < 0)
             THEN (a * b + Unit \div 2) \div Unit
             ELSE -((-(a * b) + Unit \div 2) \div Unit))
  ELSE IF Sgn(a) * Sgn(b) < 0 THEN -MulMag(Abs(a), Abs(b))
  ELSE MulMag(Abs(a), Abs(b))
Mul(a, b) == Only({MulV(x, y) : x \in {a}, y \in {b}})

\* <<floor(r * m / y), (r * m) % y>> for 0 <= r < y, by doubling
ScaleStep(h, t, y) == <<2 * h[1] + (2 * h[2] + t) \div y, (2 * h[2] + t) % y>>
RECURSIVE ScaleRem(_, _, _)
ScaleRem(r, m, y) ==
  IF m = 0 THEN <<0, 0>>
  ELSE Only({ScaleStep(h, (m % 2) * r, y) : h \in {ScaleRem(r, m \div 2, y)}})

\* x * Unit / y for finite x >= 0 and finite y > 0
DivMag(x, y) ==
  IF x \div y >= Lim \div Unit THEN PosInf
  ELSE Norm((x \div y) * Unit + ScaleRem(x % y, Unit, y)[1])

DivV(a, b) ==
  IF a = NaN \/ b = NaN THEN NaN
  ELSE IF ~IsFin(a) THEN (IF ~IsFin(b) THEN NaN
                          ELSE IF b < 0 THEN NegV(a) ELSE a)
  ELSE IF ~IsFin(b) THEN 0
  ELSE IF b = 0 THEN (IF a = 0 THEN NaN ELSE IF a > 0 THEN PosInf ELSE NegInf)
  ELSE IF Sgn(a) * Sgn(b) < 0 THEN -DivMag(Abs(a), Abs(b))
  ELSE DivMag(Abs(a), Abs(b))
Div(a, b) == Only({DivV(x, y) : x \in {a}, y \in {b}})

FAbsV(x) == IF x = NaN THEN NaN ELSE Abs(x)
FAbs(a) == Only({FAbsV(x) : x \in {a}})

\* np.pi
Pi == 31416
HalfPi == Pi \div 2

\* sine by its Taylor polynomial on [-pi/2, pi/2], after reduction:
\* x (1 - z/6 (1 - z/20 (1 - z/42 (1 - z/72)))) with z = x^2
SinPoly(x, z) ==
  Mul(x, Unit - Mul(z \div 6,
           Unit - Mul(z \div 20,
             Unit - Mul(z \div 42, Unit - z \div 72))))
RECURSIVE SinV(_)
SinV(x) ==
  IF ~IsFin(x) THEN NaN
  ELSE IF x > Pi THEN SinV(x - 2 * Pi)
  ELSE IF x < -Pi THEN SinV(x + 2 * Pi)
  ELSE IF x > HalfPi THEN SinV(2 * HalfPi - x)
  ELSE IF x < -HalfPi THEN SinV(-2 * HalfPi - x)
  ELSE Only({SinPoly(x, z) : z \in {MulV(x, x)}})
Sin(a) == Only({SinV(x) : x \in {a}})

CosV(x) == IF ~IsFin(x) THEN NaN ELSE SinV(HalfPi - x)
Cos(a) == Only({CosV(x) : x \in {a}})

TanV(x) == Div(SinV(x), CosV(x))
Tan(a) == Only({TanV(x) : x \in {a}})

\* exp by halving the argument down to [0, 1/2], the Taylor polynomial
\* there, and squaring back
SquareV(h) == MulV(h, h)
RECURSIVE ExpPos(_)
ExpPos(x) ==
  IF 2 * x > Unit
  THEN Only({SquareV(h) : h \in {ExpPos(x \div 2)}})
  ELSE Unit + Mul(x,
         Unit + Mul(x \div 2,
           Unit + Mul(x \div 3,
             Unit + Mul(x \div 4, Unit + x \div 5))))

ExpV(x) ==
  IF x = NaN THEN NaN
  ELSE IF x = PosInf THEN PosInf
  ELSE IF x = NegInf THEN 0
  ELSE IF x >= 0 THEN ExpPos(x)
  ELSE Div(Unit, ExpPos(-x))
Exp(a) == Only({ExpV(x) : x \in {a}})

\* arctan by bisection on the angle: the a in [0, pi/2] with
\* sin a = x cos a, for x >= 0
RECURSIVE AtanBisect(_, _, _)
AtanBisect(x, lo, hi) ==
  IF hi - lo <= 1 THEN lo
  ELSE Only({IF SinV(mid) <= Mul(x, CosV(mid))
             THEN AtanBisect(x, mid, hi)
             ELSE AtanBisect(x, lo, mid) : mid \in {(lo + hi) \div 2}})

ArctanV(x) ==
  IF x = NaN THEN NaN
  ELSE IF x = PosInf THEN HalfPi
  ELSE IF x = NegInf THEN -HalfPi
  ELSE IF x >= 0 THEN AtanBisect(x, 0, HalfPi)
  ELSE -AtanBisect(-x, 0, HalfPi)
Arctan(a) == Only({ArctanV(x) : x \in {a}})

Radians(d) == Div(Mul(d, Pi), 180 * Unit)
Degrees(r) == Div(Mul(r, 180 * Unit), Pi)

(***************************************************************************)
(* The script.  `inp` is the record of the eight widget values.  The       *)
(* assignments are grouped into steps; each step sees the values of the    *)
(* names assigned before it.                                               *)
(***************************************************************************)

\* line 33: B_prime = B - 2 * abs(e); there is no clamp in the script
EffectiveWidthNoAbs(b, x) == b - 2 * x
EffectiveWidth(b, x) == b - 2 * Abs(x)

\* line 29
DesignAngle(inp) == Arctan(Div(Tan(Radians(inp.phi_k)), inp.gamma_m))

\* lines 30-36, up to the factors of Nq: tan(phi_d) and tan(45 deg + phi_d/2)
DesignValues(inp, phi_d_rad) ==
  [phi_d_rad |-> phi_d_rad,
   phi_d_deg |-> Degrees(phi_d_rad),
   B_prime |-> EffectiveWidth(inp.B, inp.e),
   tan_phi_d |-> Tan(phi_d_rad),
   tan_half |-> Tan(Add(Radians(45 * Unit), Div(phi_d_rad, 2 * Unit)))]

\* lines 36-37
Factors(d) ==
  Only({[Nq |-> n, Ngamma |-> Mul(Mul(2 * Unit, Sub(n, Unit)), d.tan_phi_d)] :
          n \in {Mul(Exp(Mul(Pi, d.tan_phi_d)), Mul(d.tan_half, d.tan_half))}})

\* lines 40-41
SigmaD(inp, d, f) ==
  Sub(Add(Mul(Add(Mul(inp.gamma, inp.D), inp.attraksjon), f.Nq),
          Mul(Mul(Mul(Unit \div 2, inp.gamma), d.B_prime), f.Ngamma)),
      inp.attraksjon)

\* lines 40-43.  q_faktisk is a division of two Python floats, which would
\* raise for a zero B_prime; every other division has a numpy operand and
\* follows Div.
Capacity(inp, d, f) ==
  Only({[phi_d_rad |-> d.phi_d_rad, phi_d_deg |-> d.phi_d_deg,
         B_prime |-> d.B_prime, Nq |-> f.Nq, Ngamma |-> f.Ngamma,
         q_sur |-> Mul(inp.gamma, inp.D), sigma_d |-> sigma_d,
         q_faktisk |-> q_faktisk,
         utnyttelse |-> Mul(Div(q_faktisk, sigma_d), 100 * Unit)] :
          sigma_d \in {SigmaD(inp, d, f)},
          q_faktisk \in {Div(inp.V_k, d.B_prime)}})

\* lines 27-43: design values, effective width, factors, capacity, pressure
Calculations(inp) ==
  Only({Only({Capacity(inp, d, f) : f \in {Factors(d)}}) :
          d \in {DesignValues(inp, p) : p \in {DesignAngle(inp)}}})

\* np.linspace(0, stop, 25): 25 evenly spaced samples, the last one stop
NumSamples == 25
Linspace(stop) == [i \in 1..NumSamples |-> ((i - 1) * stop) \div (NumSamples - 1)]

\* lines 55-58, 64 and 84: side, the ends of the effective width, the wedge
\* angle
Frame(inp, c) ==
  [side |-> IF inp.e >= 0 THEN 1 ELSE -1,
   half |-> c.B_prime \div 2,
   y_base |-> -inp.D,
   alpha1_rad |-> Radians(Add(45 * Unit, Div(c.phi_d_deg, 2 * Unit))),
   exit_angle |-> Radians(Sub(45 * Unit, Div(c.phi_d_deg, 2 * Unit))),
   tan_phi_d |-> Tan(c.phi_d_rad),
   theta_vals |-> Linspace(Add(HalfPi, Radians(c.phi_d_deg)))]

\* lines 56-57, 65-69: the wedge
Wedge(inp, fr) ==
  [x_eff_start |-> inp.e - fr.side * fr.half,
   x_eff_end |-> inp.e + fr.side * fr.half,
   h_kile |-> Mul(fr.half, Tan(fr.alpha1_rad)),
   r0 |-> Div(fr.half, Cos(fr.alpha1_rad))]

\* lines 73-78: one spiral sample
SpiralPoint(fr, w, t) ==
  Only({<<Add(w.x_eff_end, Mul(Mul(fr.side * Unit, r), Cos(angle))),
          Sub(fr.y_base, Mul(r, Sin(angle)))>> :
          r \in {Mul(w.r0, Exp(Mul(t, fr.tan_phi_d)))},
          angle \in {Sub(fr.alpha1_rad, t)}})

\* lines 82-87: the exit point
ExitPoint(fr, p_last_spiral) ==
  <<Add(p_last_spiral[1],
        Mul(fr.side * Unit,
            Mul(FAbs(p_last_spiral[2]),
                Tan(Sub(Radians(90 * Unit), fr.exit_angle))))),
    0>>

\* lines 61-66, 90, 101 and 136: the points put together
Figure(inp, fr, w, spiral_pts, p_exit) ==
  [side |-> fr.side, x_eff_start |-> w.x_eff_start, x_eff_end |-> w.x_eff_end,
   y_base |-> fr.y_base, alpha1_rad |-> fr.alpha1_rad, h_kile |-> w.h_kile,
   p_apex |-> <<inp.e, Sub(fr.y_base, w.h_kile)>>, r0 |-> w.r0,
   spiral_pts |-> spiral_pts, p_exit |-> p_exit,
   poly_pts |-> <<<<w.x_eff_start, fr.y_base>>,
                  <<inp.e, Sub(fr.y_base, w.h_kile)>>>>
                \o spiral_pts
                \o <<p_exit, <<w.x_eff_start, 0>>>>,
   closed |-> TRUE,
   dist_kant |-> FAbs(Sub(p_exit[1], fr.side * (inp.B \div 2)))]

Spiral(inp, fr, w) ==
  Only({Only({Figure(inp, fr, w, spiral_pts, p_exit) :
                p_exit \in {ExitPoint(fr, spiral_pts[NumSamples])}}) :
          spiral_pts \in {[k \in 1..NumSamples |->
                             SpiralPoint(fr, w, fr.theta_vals[k])]}})

\* lines 52-90 and 136: the failure figure
Geometry(inp, c) ==
  Only({Only({Spiral(inp, fr, w) : w \in {Wedge(inp, fr)}}) :
          fr \in {Frame(inp, c)}})

\* f"{x:.1f}" and f"{x:.2f}": the value rounded to `step`, in units of
\* `step`; inf and nan are printed as such
Fmt(x, step) ==
  IF ~IsFin(x) THEN x
  ELSE Sgn(x) * ((Abs(x) + step \div 2) \div step)

\* lines 45-50 and 132-143: what the script puts on the page.  There is no
\* st.error / st.success / st.stop and no raise anywhere in the script, so a
\* run always shows the four metrics and never an alert element.
Page(c, g) ==
  [grunntrykk |-> Fmt(c.q_faktisk, Unit \div 10),
   baereevne |-> Fmt(c.sigma_d, Unit \div 10),
   utnyttelse |-> Fmt(c.utnyttelse, Unit \div 10),
   b_effektiv |-> Fmt(c.B_prime, Unit \div 100),
   avstand |-> Fmt(g.dist_kant, Unit \div 10),
   dybde |-> Fmt(g.h_kile, Unit \div 10),
   alpha1 |-> Fmt(Add(45 * Unit, Div(c.phi_d_deg, 2 * Unit)), Unit \div 10),
   alpha2 |-> Fmt(Sub(45 * Unit, Div(c.phi_d_deg, 2 * Unit)), Unit \div 10),
   alerts |-> {},
   error |-> "none"]

\* the widget values, the names the last run assigned, the page it drew, and
\* the number of reruns since the session started
VARIABLES phi_k, attraksjon, gamma, gamma_m, V_k, B, D, e, calc, geo, page, runs

vars == <<phi_k, attraksjon, gamma, gamma_m, V_k, B, D, e, calc, geo, page, runs>>

\* a session is followed for this many widget changes
MaxChanges == 2

Inputs == [phi_k |-> phi_k, attraksjon |-> attraksjon, gamma |-> gamma,
           gamma_m |-> gamma_m, V_k |-> V_k, B |-> B, D |-> D, e |-> e]

\* a script that kept the figure of the previous run
ScriptCachedFigure(old, inp) ==
  Only({Only({[calc |-> c, geo |-> g, page |-> Page(c, g)] :
                g \in {IF old.ran THEN old.geo ELSE Geometry(inp, c)}}) :
          c \in {Calculations(inp)}})

\* one execution of the script on the widget values `inp`: every name is
\* assigned afresh; nothing of the previous run (`old`) is read (the script
\* uses neither st.session_state nor a cache decorator)
Script(old, inp) ==
  Only({Only({[calc |-> c, geo |-> g, page |-> Page(c, g)] :
                g \in {Geometry(inp, c)}}) :
          c \in {Calculations(inp)}})

Rerun(inp) ==
  /\ runs < MaxChanges
  /\ \E new \in {Script([ran |-> TRUE, calc |-> calc, geo |-> geo, page |-> page], inp)} :
      /\ runs' = runs + 1
      /\ phi_k' = inp.phi_k
      /\ attraksjon' = inp.attraksjon
      /\ gamma' = inp.gamma
      /\ gamma_m' = inp.gamma_m
      /\ V_k' = inp.V_k
      /\ B' = inp.B
      /\ D' = inp.D
      /\ e' = inp.e
      /\ calc' = new.calc
      /\ geo' = new.geo
      /\ page' = new.page

\* widget defaults (the `value` arguments, lines 16-25)
Default == [phi_k |-> 32 * Unit, attraksjon |-> 5 * Unit, gamma |-> 19 * Unit,
            gamma_m |-> (125 * Unit) \div 100, V_k |-> 350 * Unit,
            B |-> 2 * Unit, D |-> Unit, e |-> 0]

Init ==
  \E new \in {Script([ran |-> FALSE], Default)} :
      /\ runs = 0
      /\ phi_k = Default.phi_k
      /\ attraksjon = Default.attraksjon
      /\ gamma = Default.gamma
      /\ gamma_m = Default.gamma_m
      /\ V_k = Default.V_k
      /\ B = Default.B
      /\ D = Default.D
      /\ e = Default.e
      /\ calc = new.calc
      /\ geo = new.geo
      /\ page = new.page

PhiKValues == {20 * Unit, 32 * Unit, 45 * Unit}
AttraksjonValues == {5 * Unit, 0, -50 * Unit}
GammaValues == {19 * Unit, 0}
GammaMValues == {(125 * Unit) \div 100, Unit, 0}
VValues == {350 * Unit, 360 * Unit, 1500 * Unit}
BValues == {2 * Unit, Unit \div 2}
DValues == {Unit, 0, 2 * Unit}
\* st.sidebar.slider(..., -B/3, B/3, 0.0, 0.01): the slider returns a value
\* between its bounds
EMaxHalf(b) == b \div 2
EMax(b) == b \div 3
EValues(b) == {-EMax(b), 0, EMax(b)}
\* the slider's bounds move with B.  Streamlit identifies a widget by its
\* arguments, so the slider with new bounds starts at its default 0.0; a
\* version that kept the old position would bring it inside the new bounds
EAfterB(b) == {0, IF e > EMax(b) THEN EMax(b) ELSE IF e < -EMax(b) THEN -EMax(b) ELSE e}

ChangePhiK == \E v \in PhiKValues \ {phi_k} : Rerun([Inputs EXCEPT !.phi_k = v])
ChangeAttraksjon == \E v \in AttraksjonValues \ {attraksjon} : Rerun([Inputs EXCEPT !.attraksjon = v])
ChangeGamma == \E v \in GammaValues \ {gamma} : Rerun([Inputs EXCEPT !.gamma = v])
ChangeGammaM == \E v \in GammaMValues \ {gamma_m} : Rerun([Inputs EXCEPT !.gamma_m = v])
ChangeV == \E v \in VValues \ {V_k} : Rerun([Inputs EXCEPT !.V_k = v])
ChangeB == \E v \in BValues \ {B} : \E x \in EAfterB(v) :
              Rerun([Inputs EXCEPT !.B = v, !.e = x])
ChangeD == \E v \in DValues \ {D} : Rerun([Inputs EXCEPT !.D = v])
ChangeE == \E v \in EValues(B) \ {e} : Rerun([Inputs EXCEPT !.e = v])

Next ==
  \/ ChangePhiK
  \/ ChangeAttraksjon
  \/ ChangeGamma
  \/ ChangeGammaM
  \/ ChangeV
  \/ ChangeB
  \/ ChangeD
  \/ ChangeE

Spec == Init /\ [][Next]_vars

(***************************************************************************)
(* Properties                                                              *)
(***************************************************************************)

\* comparisons of doubles: false as soon as one side is nan
FLeq(a, b) == a # NaN /\ b # NaN /\ a <= b
FLess(a, b) == a # NaN /\ b # NaN /\ a < b

\* two values agree up to the rounding of the arithmetic (0.01)
Tol == Unit \div 100
Near(a, b) == IsFin(a) /\ IsFin(b) /\ Abs(a - b) <= Tol

ShownValues == {page.grunntrykk, page.baereevne, page.utnyttelse,
                page.b_effektiv, page.avstand, page.dybde}
ComputedValues == {calc.phi_d_rad, calc.phi_d_deg, calc.Nq, calc.Ngamma,
                   calc.sigma_d, calc.q_faktisk, calc.utnyttelse}

\* C1: whenever the material factor gamma_m is <= 0 the run ends with an
\* InvalidParameter error, and no computed or displayed value is nan or
\* infinite.
C1_RejectsNonPositiveGammaM ==
  gamma_m <= 0 =>
    /\ page.error = "InvalidParameter"
    /\ \A v \in ShownValues \cup ComputedValues : IsFin(v)

\* C2: whenever the design bearing capacity sigma_d is <= 0 the run ends
\* with an InvalidParameter error instead of dividing by it.
C2_RejectsNonPositiveSigmaD ==
  FLeq(calc.sigma_d, 0) => page.error = "InvalidParameter"

\* the floor of the clamp policy, 0.1 m
WidthFloor == Unit \div 10

OnlyVChanged ==
  /\ V_k' # V_k
  /\ UNCHANGED <<phi_k, attraksjon, gamma, gamma_m, B, D, e>>

\* C4: between two runs that differ only in the vertical load V, the
\* utilization moves strictly in the same direction as V.
C4_UtilizationIncreasingInV ==
  [][OnlyVChanged =>
       /\ V_k < V_k' => FLess(calc.utnyttelse, calc'.utnyttelse)
       /\ V_k' < V_k => FLess(calc'.utnyttelse, calc.utnyttelse)]_vars

\* C5: a run that succeeds shows a success indicator exactly when the
\* utilization is <= 100 % and a failure indicator exactly when it is > 100 %.
C5_PassFailIndicator ==
  page.error = "none" =>
    /\ ("success" \in page.alerts) <=> FLeq(calc.utnyttelse, 100 * Unit)
    /\ ("failure" \in page.alerts) <=> FLess(100 * Unit, calc.utnyttelse)

\* depth of the k-th spiral sample below the founding level
SpiralDepth(k) == Sub(geo.y_base, geo.spiral_pts[k][2])

\* C6: the depth the page reports for the critical shear surface is the depth
\* of the deepest spiral sample below the founding level: no spiral sample
\* lies deeper than the reported depth, and one lies at it.
C6_ReportedDepthIsDeepest ==
  /\ \A k \in 1..NumSamples : FLeq(SpiralDepth(k), Add(geo.h_kile, Tol))
  /\ \E k \in 1..NumSamples : Near(SpiralDepth(k), geo.h_kile)
  /\ page.dybde = Fmt(geo.h_kile, Unit \div 10)

\* C7: in every state all derived and displayed values are the ones a fresh
\* execution of the script computes from the current widget values alone.
C7_DerivedFromCurrentInputs ==
  \A fresh \in {Script([ran |-> FALSE], Inputs)} :
      /\ calc = fresh.calc
      /\ geo = fresh.geo
      /\ page = fresh.page

\* C7 witness: the widgets are back at values entered before, with another
\* value entered in between, and the page differs from nothing a first run
\* on these values shows.
C7_Witness ==
  /\ runs = 2
  /\ Inputs = Default
  /\ page = Script([ran |-> FALSE], Default).page

\* twice the signed area of the triangle of three points
Cross(p, q, r) ==
  Sub(Mul(Sub(q[1], p[1]), Sub(r[2], p[2])), Mul(Sub(q[2], p[2]), Sub(r[1], p[1])))

\* C8: the polygon is the edge point at founding depth, the apex, the N >= 20
\* spiral samples in order, the exit point and the closing point at ground
\* level on the side away from the spiral; it has N + 4 points, is drawn
\* closed, and encloses positive area (its points are finite and not all on
\* one line).
C8_PolygonShape ==
  LET P == geo.poly_pts
      N == NumSamples
  IN  /\ N >= 20
      /\ Len(P) = N + 4
      /\ P[1] = <<geo.x_eff_start, -D>>
      /\ P[2] = <<e, Sub(-D, geo.h_kile)>>
      /\ \A k \in 1..N : P[2 + k] = geo.spiral_pts[k]
      /\ P[N + 3] = geo.p_exit
      /\ P[N + 3][2] = 0
      /\ P[N + 4] = <<geo.x_eff_start, 0>>
      /\ geo.side * (geo.x_eff_start - e) < 0
      /\ geo.side * (geo.x_eff_end - e) > 0
      /\ geo.closed
      /\ \A k \in 1..Len(P) : IsFin(P[k][1]) /\ IsFin(P[k][2])
      /\ \E i, j, k \in 1..3 : i < j /\ j < k /\ Cross(P[i], P[j], P[k]) # 0

\* C9: the widgets keep B >= 0.5 and |e| <= B/3, so the effective width
\* B - 2|e| is at least B/3 > 0 and the ground pressure is a finite quotient.
C9_EccentricityWithinThird ==
  /\ B >= Unit \div 2
  /\ 3 * Abs(e) <= B
  /\ calc.B_prime = B - 2 * Abs(e)
  /\ 3 * calc.B_prime >= B
  /\ calc.B_prime > 0
  /\ IsFin(calc.q_faktisk)

\* C9 witness: the width was made smaller and the slider stands at the bound
\* of its new, narrower range.
C9_Witness ==
  /\ runs = 2
  /\ B < Default.B
  /\ Abs(e) = EMax(B)
  /\ e # 0

\* C10: the first spiral sample is the apex of the active wedge: it has
\* x = e and y = -(D + h).
C10_SpiralStartsAtApex ==
  /\ Near(geo.spiral_pts[1][1], geo.p_apex[1])
  /\ Near(geo.spiral_pts[1][2], geo.p_apex[2])
  /\ geo.p_apex = <<e, Sub(-D, geo.h_kile)>>
====
